---- MODULE Spec2Model ----
(***************************************************************************)
(* Loyalty application: the relational store declared by the migrations    *)
(* (clients, items, purchases with their check / foreign-key constraints), *)
(* the frontend services and pages that write to it, and the analytics      *)
(* helpers that read the overview computed from it.                         *)
(*                                                                         *)
(* Money is in cents (numeric(10,2)); every amount of the model is far     *)
(* below the column's range.  Row ids are fresh on every insert, as        *)
(* gen_random_uuid() values are: an id is never handed out twice.          *)
(***************************************************************************)
EXTENDS Integers, Sequences, FiniteSets, TLC

\* ------------------------------------------------------------------ bounds
MaxClients == 2
MaxItems == 2
MaxPurchases == 2
MaxQty == 2

Names == {"Ana", "Bea"}
NewNames == {"Ana Maria"}
Prices == {-500, 7500}
Quantities == -1 .. MaxQty
ClientIds == 1 .. MaxClients
ItemIds == 1 .. MaxItems
Days == {0, 6, 90}
Limits == {0, 1, 2, 5}
Windows == {0, 1, 7}

\* The empty <Select> value '' / an empty quantity field.
NoSel == 0

None == [kind |-> "none"]

\* JSON null, and a value that is present.
Null == {}
Some(x) == {x}
The(s) == CHOOSE x \in s : TRUE

VARIABLES
    clients,    \* rows of public.clients:   [id, name]
    items,      \* rows of public.items:     [id, price, image_url]
    purchases,  \* rows of public.purchases: [id, client_id, item_id, quantity, total, purchased_at]
    seq,        \* next fresh id of each table
    pending,    \* the PurchasesPage's POST /purchases/ in flight, or None
    resp,       \* outcome of the last write, as shown in the page's toast
    today,      \* the store's now(), in days
    call,       \* the analytics call awaiting its response, or None
    selected,   \* ClientsPage: selectedId of the suggestions modal, or Null
    ia,         \* ClientsPage: the ['ai-suggestions', id] queries of the cache
    uploads,    \* the images held by the external storage
    itemReq,    \* StockPage: the create-item mutation in flight, or None
    tenant,     \* the tenant whose session issues the requests
    owner,      \* which tenant created which client: <<client id, tenant>>
    auth,       \* AuthProvider: the auth state, or Null
    localAuth,  \* localStorage 'auth', or Null
    isReady,    \* AuthProvider: hydration has finished
    route,      \* router.pathname
    nav,        \* signIn: "idle", or "pushing" while router.push('/') runs
    events,     \* the storage events not yet handled: [key, newValue]
    alreadyHandled401,  \* fetcher: a 401 of this page load has been handled
    inflight,   \* fetcher: the requests awaiting their response
    redirects,  \* assignments of window.location.href since the page was loaded
    delivered,  \* the responses handed to their callers since the page was loaded
    cache,      \* the QueryClient's list queries, by query key
    search,     \* useClients: the search term the hook is given
    debounced,  \* useDebounce: the debounced term
    timer       \* useDebounce: the pending setTimeout [value, elapsed], or Null

\* The module state of the fetcher and what it has done in this page load.
net == <<alreadyHandled401, inflight, redirects, delivered>>

\* The debounced search of useClients.
lists == <<search, debounced, timer>>

\* The state of the pages and of the session.
ui == <<selected, ia, uploads, itemReq, tenant, owner, auth, localAuth, isReady, route, nav, events, net, lists>>

vars == <<clients, items, purchases, seq, pending, resp, today, call, ui, cache>>
store == <<clients, items, purchases>>

\* ------------------------------------------------- the store's constraints

\* A check that lets a quantity of zero through.
QuantityCheckNonNegative(q) == q >= 0

\* check (quantity > 0)
QuantityCheck(q) == q > 0

\* The client reference left unchecked.
ClientFkUnchecked(cs, c) == TRUE

\* client_id uuid not null references public.clients(id)
ClientFk(cs, c) == \E r \in cs : r.id = c

\* item_id uuid not null references public.items(id)
ItemFk(is, i) == \E r \in is : r.id = i

PriceOf(is, i) == (CHOOSE r \in is : r.id = i).price

\* A total that forgets the quantity.
GeneratedTotalUnitPrice(is, i, q) == PriceOf(is, i)

\* total numeric(10,2) generated always as (quantity * (select price ...)) stored
GeneratedTotal(is, i, q) == q * PriceOf(is, i)

\* A delete that leaves the client's purchases behind.
CascadeClientNone(ps, c) == ps

\* ... on delete cascade: the purchases left after client c is deleted
CascadeClient(ps, c) == {p \in ps : p.client_id # c}

\* A delete that is never held back.
RestrictItemNever(ps, i) == TRUE

\* ... on delete restrict: may item i be deleted?
RestrictItem(ps, i) == \A p \in ps : p.item_id # i

\* The constraint an insert into purchases violates, or "ok".  The check
\* constraint is evaluated on the row, the foreign keys after it.
InsertStatus(cs, is, c, i, q) ==
    IF ~QuantityCheck(q) THEN "quantity_check"
    ELSE IF ~ClientFk(cs, c) THEN "client_fkey"
    ELSE IF ~ItemFk(is, i) THEN "item_fkey"
    ELSE "ok"

\* insert into public.purchases (client_id, item_id, quantity): one atomic
\* statement, the row is added only when no constraint is violated.
InsertPurchase(c, i, q) ==
    LET st == InsertStatus(clients, items, c, i, q) IN
    /\ resp' = st
    /\ IF st = "ok"
       THEN /\ purchases' = purchases \cup
                   {[id |-> seq.purchase, client_id |-> c, item_id |-> i,
                     quantity |-> q, total |-> GeneratedTotal(items, i, q),
                     purchased_at |-> today]}
            /\ seq' = [seq EXCEPT !.purchase = @ + 1]
       ELSE UNCHANGED <<purchases, seq>>
    /\ UNCHANGED <<clients, items, today, call, ui>>

\* -------------------------------------------------- the QueryClient's lists

\* The list queries of the three pages, by query key.  The search box of
\* the stock page and the term of useClients are empty in these keys.  The
\* two selects of the purchase form are queries of their own
\* (['clients-lite'], ['items-lite']) that no mutation's filter matches;
\* they are options of a form, not a page's list.
ListKeys == {<<"clients", "">>, <<"items", "">>, <<"purchases">>}

\* const KEY = (q) => ['clients', q]
KEY(q) == <<"clients", q>>

\* The list query a page mounts: useClients on /clients, the items query
\* on /stock, the table on /purchases.
Observed(r) ==
    IF r = "/clients" THEN {KEY(debounced)} \cap ListKeys
    ELSE IF r = "/stock" THEN {<<"items", "">>}
    ELSE IF r = "/purchases" THEN {<<"purchases">>}
    ELSE {}

\* A filter key matches the query keys it is a prefix of.
MatchesKey(filter, k) ==
    Len(filter) <= Len(k) /\ \A n \in 1 .. Len(filter) : filter[n] = k[n]

\* An invalidation that matches a query key only when it is the same key.
InvalidateExact(filter) ==
    [k \in ListKeys |->
        IF filter = k
        THEN [cache[k] EXCEPT !.stale = TRUE,
                              !.fetching = @ \/ k \in Observed(route)]
        ELSE cache[k]]

\* queryClient.invalidateQueries({ queryKey: filter }): the matching queries
\* are marked stale and those a mounted page observes are fetched again.
Invalidate(filter) ==
    [k \in ListKeys |->
        IF MatchesKey(filter, k)
        THEN [cache[k] EXCEPT !.stale = TRUE,
                              !.fetching = @ \/ k \in Observed(route)]
        ELSE cache[k]]

\* ---------------------------------------------------------------- actions

Init ==
    /\ clients = {}
    /\ items = {}
    /\ purchases = {}
    /\ seq = [client |-> 1, item |-> 1, purchase |-> 1]
    /\ pending = None
    /\ resp = "ok"
    /\ today = 0
    /\ call = None
    /\ selected = Null
    /\ ia = [c \in ClientIds |->
                [status |-> "pending", data |-> Null, fetching |-> FALSE, failureCount |-> 0]]
    /\ uploads = {}
    /\ itemReq = None
    /\ tenant = "t1"
    /\ owner = {}
    /\ auth = Null
    /\ localAuth = Null
    /\ isReady = FALSE
    /\ route = "/login"
    /\ nav = "idle"
    /\ events = <<>>
    /\ alreadyHandled401 = FALSE
    /\ inflight = <<>>
    /\ redirects = 0
    /\ delivered = <<>>
    /\ cache = [k \in ListKeys |->
                  [data |-> Null, stale |-> TRUE, fetching |-> FALSE]]
    /\ search = ""
    /\ debounced = ""
    /\ timer = Some([value |-> "", elapsed |-> 0])

\* createClient: POST /clients/
CreateClient(n) ==
    /\ seq.client <= MaxClients
    /\ clients' = clients \cup {[id |-> seq.client, name |-> n]}
    /\ seq' = [seq EXCEPT !.client = @ + 1]
    /\ resp' = "ok"
    /\ owner' = owner \cup {<<seq.client, tenant>>}
    /\ UNCHANGED <<items, purchases, pending, today, call>>
    /\ UNCHANGED <<selected, ia, uploads, itemReq, tenant, auth, localAuth, isReady, route, nav, events, net, lists, cache>>

\* createItem: POST /items/ ; the payload's price is stored as given
CreateItem(price) ==
    /\ seq.item <= MaxItems
    /\ items' = items \cup {[id |-> seq.item, price |-> price, image_url |-> Null]}
    /\ seq' = [seq EXCEPT !.item = @ + 1]
    /\ resp' = "ok"
    /\ UNCHANGED <<clients, purchases, pending, today, call, ui, cache>>

\* A purchase of the same client and item is topped up instead of added.
CreatePurchaseMerges(c, i, q) ==
    /\ seq.purchase <= MaxPurchases
    /\ IF InsertStatus(clients, items, c, i, q) = "ok"
          /\ \E p \in purchases : p.client_id = c /\ p.item_id = i
       THEN /\ purchases' =
                 {IF p.client_id = c /\ p.item_id = i
                  THEN [p EXCEPT !.quantity = @ + q,
                                 !.total = GeneratedTotal(items, i, p.quantity + q)]
                  ELSE p : p \in purchases}
            /\ resp' = "ok"
            /\ UNCHANGED <<clients, items, seq, today, call, ui>>
       ELSE InsertPurchase(c, i, q)
    /\ cache' = IF resp' = "ok" THEN Invalidate(<<"purchases">>) ELSE cache
    /\ UNCHANGED pending

\* createPurchase called with any payload (usePurchases passes it through);
\* on success the mutation invalidates ['purchases'].
CreatePurchase(c, i, q) ==
    /\ seq.purchase <= MaxPurchases
    /\ InsertPurchase(c, i, q)
    /\ cache' = IF resp' = "ok" THEN Invalidate(<<"purchases">>) ELSE cache
    /\ UNCHANGED pending

\* PurchasesPage.createMut.mutationFn: the form is validated, then the
\* request leaves; the button is disabled while a request is in flight.
SubmitPurchase(c, i, q) ==
    /\ pending = None
    /\ seq.purchase <= MaxPurchases
    /\ IF c = NoSel \/ i = NoSel \/ q = NoSel \/ q <= 0
       THEN /\ resp' = "form_invalid"
            /\ UNCHANGED pending
       ELSE /\ pending' = [kind |-> "createPurchase", client_id |-> c,
                           item_id |-> i, quantity |-> q]
            /\ UNCHANGED resp
    /\ UNCHANGED <<clients, items, purchases, seq, today, call, ui, cache>>

\* An insert that trusts the client the form showed and checks the item only.
DeliverPurchaseTrustsForm ==
    /\ pending # None
    /\ IF QuantityCheck(pending.quantity) /\ ItemFk(items, pending.item_id)
       THEN /\ purchases' = purchases \cup
                   {[id |-> seq.purchase, client_id |-> pending.client_id,
                     item_id |-> pending.item_id, quantity |-> pending.quantity,
                     total |-> GeneratedTotal(items, pending.item_id, pending.quantity),
                     purchased_at |-> today]}
            /\ seq' = [seq EXCEPT !.purchase = @ + 1]
            /\ resp' = "ok"
       ELSE /\ resp' = "item_fkey"
            /\ UNCHANGED <<purchases, seq>>
    /\ pending' = None
    /\ cache' = IF resp' = "ok" THEN Invalidate(<<"purchases">>) ELSE cache
    /\ UNCHANGED <<clients, items, today, call, ui>>

\* The store executes the page's request; onSuccess invalidates
\* ['purchases'], onError only shows the toast.
DeliverPurchase ==
    /\ pending # None
    /\ InsertPurchase(pending.client_id, pending.item_id, pending.quantity)
    /\ cache' = IF resp' = "ok" THEN Invalidate(<<"purchases">>) ELSE cache
    /\ pending' = None

\* listPurchases / listItems: GET /purchases/ , GET /items/
listPurchases == purchases
listItems == items

\* deleteClient: DELETE /clients/{id}
DeleteClient(c) ==
    /\ IF ClientFk(clients, c)
       THEN /\ clients' = {r \in clients : r.id # c}
            /\ purchases' = CascadeClient(purchases, c)
            /\ resp' = "ok"
       ELSE /\ resp' = "no_row"
            /\ UNCHANGED <<clients, purchases>>
    /\ UNCHANGED <<items, seq, pending, today, call, ui, cache>>

\* updateClient: PUT /clients/{id}, the one update operation there is
UpdateClient(c, n) ==
    /\ IF ClientFk(clients, c)
       THEN /\ clients' = {IF r.id = c THEN [r EXCEPT !.name = n] ELSE r : r \in clients}
            /\ resp' = "ok"
       ELSE /\ resp' = "no_row"
            /\ UNCHANGED clients
    /\ UNCHANGED <<items, purchases, seq, pending, today, call, ui, cache>>

\* deleteItem: DELETE /items/{id}
DeleteItem(i) ==
    /\ IF ~ItemFk(items, i)
       THEN /\ resp' = "no_row"
            /\ UNCHANGED items
       ELSE IF RestrictItem(purchases, i)
       THEN /\ items' = {r \in items : r.id # i}
            /\ resp' = "ok"
       ELSE /\ resp' = "item_restrict"
            /\ UNCHANGED items
    /\ UNCHANGED <<clients, purchases, seq, pending, today, call, ui, cache>>


\* Time passes between requests: now() moves to a later day.
Tick(d) ==
    /\ d > today
    /\ today' = d
    /\ UNCHANGED <<clients, items, purchases, seq, pending, resp, call, ui, cache>>

\* ------------------------------------------- aggregation service (backend)

Min(a, b) == IF a < b THEN a ELSE b

\* The trailing window of `days` calendar days ends today.
InWindow(p, days) == p.purchased_at > today - days /\ p.purchased_at <= today

RECURSIVE SumTotal(_)
SumTotal(ps) ==
    IF ps = {} THEN 0
    ELSE LET p == CHOOSE x \in ps : TRUE IN p.total + SumTotal(ps \ {p})

RECURSIVE SumQuantity(_)
SumQuantity(ps) ==
    IF ps = {} THEN 0
    ELSE LET p == CHOOSE x \in ps : TRUE IN p.quantity + SumQuantity(ps \ {p})

\* getSalesTrend(days): one point per calendar day, oldest first
getSalesTrend(days) ==
    [k \in 1 .. days |->
        LET d == today - days + k IN
        [day |-> d, revenue |-> SumTotal({p \in purchases : p.purchased_at = d})]]

CustomerRows(days) ==
    {[client_id |-> c.id, client_name |-> c.name,
      orders_count |-> Cardinality({p \in purchases : p.client_id = c.id /\ InWindow(p, days)}),
      total_spent |-> SumTotal({p \in purchases : p.client_id = c.id /\ InWindow(p, days)})] :
        c \in {x \in clients : \E p \in purchases : p.client_id = x.id /\ InWindow(p, days)}}

\* Descending by summed total, ties broken by client identity.
CustomerBefore(a, b) ==
    \/ a.total_spent > b.total_spent
    \/ a.total_spent = b.total_spent /\ a.client_id <= b.client_id

RECURSIVE RankCustomers(_)
RankCustomers(rows) ==
    IF rows = {} THEN <<>>
    ELSE LET best == CHOOSE r \in rows : \A o \in rows : CustomerBefore(r, o)
         IN <<best>> \o RankCustomers(rows \ {best})

ProductRows(days) ==
    {[item_id |-> it.id,
      units_sold |-> SumQuantity({p \in purchases : p.item_id = it.id /\ InWindow(p, days)}),
      revenue |-> SumTotal({p \in purchases : p.item_id = it.id /\ InWindow(p, days)})] :
        it \in {x \in items : \E p \in purchases : p.item_id = x.id /\ InWindow(p, days)}}

ProductBefore(a, b) ==
    \/ a.units_sold > b.units_sold
    \/ a.units_sold = b.units_sold /\ a.item_id <= b.item_id

RECURSIVE RankProducts(_)
RankProducts(rows) ==
    IF rows = {} THEN <<>>
    ELSE LET best == CHOOSE r \in rows : \A o \in rows : ProductBefore(r, o)
         IN <<best>> \o RankProducts(rows \ {best})

\* getTopCustomers(windowDays, limit) / getTopProducts(windowDays, limit)
getTopCustomers(windowDays, limit) ==
    LET r == RankCustomers(CustomerRows(windowDays)) IN SubSeq(r, 1, Min(limit, Len(r)))

getTopProducts(windowDays, limit) ==
    LET r == RankProducts(ProductRows(windowDays)) IN SubSeq(r, 1, Min(limit, Len(r)))

RECURSIVE MaxOf(_)
MaxOf(S) ==
    LET x == CHOOSE y \in S : TRUE IN
    IF S = {x} THEN x ELSE LET m == MaxOf(S \ {x}) IN IF x > m THEN x ELSE m

\* The day of the client's most recent purchase, Null when it never bought.
LastPurchaseAt(c) ==
    LET ps == {p \in purchases : p.client_id = c} IN
    IF ps = {} THEN Null ELSE Some(MaxOf({p.purchased_at : p \in ps}))

\* Days since the most recent purchase, Null for "never purchased".
LastPurchaseDays(c) ==
    LET l == LastPurchaseAt(c) IN
    IF l = Null THEN Null ELSE Some(today - MaxOf(l))

MaxChurnScore == 100

\* A score that falls again for the longest absences.
ChurnStepDipping(days) ==
    IF days < 30 THEN 10 ELSE IF days < 60 THEN 40 ELSE IF days < 90 THEN 70 ELSE 30

\* The step function from recency to risk: longer recency, higher score.
ChurnStep(days) ==
    IF days < 30 THEN 10 ELSE IF days < 60 THEN 40 ELSE IF days < 90 THEN 70 ELSE 90

\* Never purchased is the maximal risk.
ChurnScore(lastDays) ==
    IF lastDays = Null THEN MaxChurnScore ELSE ChurnStep(MaxOf(lastDays))

ChurnRows ==
    {[client_id |-> c.id, name |-> c.name,
      last_purchase_at |-> LastPurchaseAt(c.id),
      churn_score |-> ChurnScore(LastPurchaseDays(c.id))] : c \in clients}

\* Descending by score; equal scores in the order of the client identity.
ChurnBefore(a, b) ==
    \/ a.churn_score > b.churn_score
    \/ a.churn_score = b.churn_score /\ a.client_id <= b.client_id

RECURSIVE RankChurn(_)
RankChurn(rows) ==
    IF rows = {} THEN <<>>
    ELSE LET best == CHOOSE r \in rows : \A o \in rows : ChurnBefore(r, o)
         IN <<best>> \o RankChurn(rows \ {best})

\* getChurnRisk(limit)
getChurnRisk(limit) ==
    LET r == RankChurn(ChurnRows) IN SubSeq(r, 1, Min(limit, Len(r)))

TrendDays == 7
DefaultLimit == 5
TopWindowDays == 90

\* A JSON value as the frontend tests it: an array with its elements, or
\* something else (missing, null, an object).
JsArray(s) == [isArray |-> TRUE, val |-> s]
NotAnArray == [isArray |-> FALSE, val |-> <<>>]

\* GET /analytics/overview: the aggregation results, the rankings in full (the
\* helpers apply the limit).  A body that lacks the lists is the other shape
\* the frontend is written to accept.
OverviewResponse(wellFormed) ==
    IF wellFormed
    THEN [topCustomers |-> JsArray(getTopCustomers(TopWindowDays, Cardinality(clients))),
          topProducts |-> JsArray(getTopProducts(TopWindowDays, Cardinality(items))),
          trend7d |-> JsArray(getSalesTrend(TrendDays)),
          churnRisk |-> JsArray(getChurnRisk(Cardinality(clients)))]
    ELSE [topCustomers |-> NotAnArray, topProducts |-> NotAnArray,
          trend7d |-> NotAnArray, churnRisk |-> NotAnArray]

\* ------------------------------------------ services/analytics.ts (frontend)

\* The field handed on as it came.
NormalizeArrayAsIs(field) == field

\* Array.isArray(x) ? x : []
NormalizeArray(field) == IF field.isArray THEN field ELSE JsArray(<<>>)

\* getOverview: the response with every list normalised
getOverview(data) ==
    [topCustomers |-> NormalizeArray(data.topCustomers),
     topProducts |-> NormalizeArray(data.topProducts),
     trend7d |-> NormalizeArray(data.trend7d),
     churnRisk |-> NormalizeArray(data.churnRisk)]

\* reverse().slice(0, end): the list taken from its other end.
JsSliceReversed(s, end) ==
    [k \in 1 .. Min(end, Len(s)) |-> s[Len(s) + 1 - k]]

\* slice(0, end + 1): one entry too many.
JsSliceOneMore(s, end) == SubSeq(s, 1, Min(end + 1, Len(s)))

\* Array.prototype.slice(0, end) for a count end >= 0
JsSlice(s, end) == SubSeq(s, 1, Min(end, Len(s)))

\* A read that clears out the purchases older than the window.
ReadOnlyPrunes ==
    /\ purchases' = {p \in purchases : p.purchased_at > today - TopWindowDays}
    /\ UNCHANGED <<clients, items, seq, pending, resp, today, ui, cache>>

\* The helpers issue one GET and write nothing.
ReadOnly == UNCHANGED <<clients, items, purchases, seq, pending, resp, today, ui, cache>>

\* A helper is called: its GET /analytics/overview leaves.  The aggregation
\* service's own getSalesTrend(days) is called the same way.
CallHelper(kind, arg, wellFormed) ==
    /\ call = None
    /\ call' = [kind |-> kind, arg |-> arg, wellFormed |-> wellFormed]
    /\ ReadOnly

\* getSalesTrend7d / getTopCustomers90d(limit) / getTopProducts90d(limit) /
\* getChurnRisk(limit): what the call returns when the overview is computed in the current state.
HelperResult(c) ==
    LET o == getOverview(OverviewResponse(c.wellFormed)) IN
    CASE c.kind = "trend7d" -> o.trend7d.val
      [] c.kind = "topCustomers" -> JsSlice(o.topCustomers.val, c.arg)
      [] c.kind = "topProducts" -> JsSlice(o.topProducts.val, c.arg)
      [] c.kind = "churnRisk" -> JsSlice(o.churnRisk.val, c.arg)
      [] c.kind = "salesTrend" -> getSalesTrend(c.arg)

\* The response arrives and the call returns HelperResult(call).
Return ==
    /\ call # None
    /\ call' = None
    /\ ReadOnly


\* ------------------------------------------------- pages/clients.tsx (badge)

\* The comparisons turned around.
churnBadgeFlipped(score) ==
    IF score = Null THEN "gray"
    ELSE LET v == MaxOf(score) IN
         IF v <= 70 THEN "red" ELSE IF v <= 40 THEN "yellow" ELSE "green"

\* churnBadge(score): the colour of the badge drawn for a score
churnBadge(score) ==
    IF score = Null THEN "gray"
    ELSE LET v == MaxOf(score) IN
         IF v >= 70 THEN "red" ELSE IF v >= 40 THEN "yellow" ELSE "green"

\* -------------------------------------------- suggestion service (backend)

\* The item the client bought most units of, the lower id on a tie; Null
\* when the client bought nothing.
TopItem(c) ==
    LET ps == {p \in purchases : p.client_id = c}
        units(i) == SumQuantity({p \in ps : p.item_id = i})
        bought == {p.item_id : p \in ps}
    IN IF ps = {} THEN Null
       ELSE Some(CHOOSE i \in bought :
                    \A j \in bought : units(i) > units(j) \/ (units(i) = units(j) /\ i <= j))

\* The templated recommendations for a score and a most-bought item.
Suggestions(score, top) ==
    <<[type |-> IF score >= 70 THEN "winback" ELSE "loyalty", item |-> top]>>

\* GET /ai/clients/{id}/suggestions: NotFound when the client does not exist.
SuggestionResponse(c) ==
    IF ~ClientFk(clients, c)
    THEN [status |-> 404, data |-> Null]
    ELSE [status |-> 200,
          data |-> Some([client_id |-> c,
                         churn_score |-> ChurnScore(LastPurchaseDays(c)),
                         last_purchase_days |-> LastPurchaseDays(c),
                         top_item_id |-> TopItem(c),
                         suggestions |-> Suggestions(ChurnScore(LastPurchaseDays(c)),
                                                     TopItem(c))])]

\* --------------------------------------------- services/ai.ts (frontend)

\* A body that is returned whatever the status was.
getClientSuggestionsAnyStatus(response) ==
    [ok |-> TRUE,
     data |-> IF response.data = Null
              THEN Some([client_id |-> 0, churn_score |-> 0, last_purchase_days |-> Null,
                         top_item_id |-> Null, suggestions |-> <<>>])
              ELSE response.data]

\* A missing recency read as 0 days.
getClientSuggestionsDaysOrZero(response) ==
    IF response.status = 200
    THEN [ok |-> TRUE,
          data |-> Some([The(response.data) EXCEPT
                            !.last_purchase_days = IF @ = Null THEN Some(0) ELSE @])]
    ELSE [ok |-> FALSE, data |-> Null]

\* getClientSuggestions: the body of a 2xx response as it came; any other
\* status rejects (axios), and nothing is returned.
getClientSuggestions(response) ==
    IF response.status = 200
    THEN [ok |-> TRUE, data |-> response.data]
    ELSE [ok |-> FALSE, data |-> Null]

\* ------------------------------------- pages/clients.tsx (suggestions modal)

\* queries: { retry: 1 }
Retry == 1

\* The rows the clients table has shown: the list may be older than the store.
ListedClients == 1 .. seq.client - 1

\* openIAModal(id): the row's id is selected and its query refetched; a query
\* without data goes back to pending.
OpenIAModal(c) ==
    /\ c \in ListedClients
    /\ selected' = Some(c)
    /\ ia' = [ia EXCEPT ![c] =
                [status |-> IF @.data = Null THEN "pending" ELSE @.status,
                 data |-> @.data, fetching |-> TRUE, failureCount |-> 0]]
    /\ UNCHANGED <<clients, items, purchases, seq, pending, resp, today, call>>
    /\ UNCHANGED <<uploads, itemReq, tenant, owner, auth, localAuth, isReady, route, nav, events, net, lists, cache>>

\* The request of query c is answered: success stores the data; a failure is
\* retried once, then the query is in error and keeps the data it had.
IaRespond(c) ==
    /\ ia[c].fetching
    /\ LET r == getClientSuggestions(SuggestionResponse(c)) IN
       ia' = [ia EXCEPT ![c] =
                IF r.ok
                THEN [status |-> "success", data |-> r.data, fetching |-> FALSE,
                      failureCount |-> 0]
                ELSE IF @.failureCount < Retry
                THEN [@ EXCEPT !.failureCount = @ + 1]
                ELSE [status |-> "error", data |-> @.data, fetching |-> FALSE,
                      failureCount |-> @.failureCount + 1]]
    /\ UNCHANGED <<clients, items, purchases, seq, pending, resp, today, call>>
    /\ UNCHANGED <<selected, uploads, itemReq, tenant, owner, auth, localAuth, isReady, route, nav, events, net, lists, cache>>

\* What the modal's body renders for the selected query.
iaLoading(q) == q.status = "pending" /\ q.fetching
iaError(q) == q.status = "error"
IaModalShows ==
    IF selected = Null THEN {}
    ELSE LET q == ia[The(selected)] IN
         (IF iaLoading(q) THEN {"spinner"} ELSE {})
            \cup (IF iaError(q) THEN {"error"} ELSE {})
            \cup (IF ~iaLoading(q) /\ ~iaError(q) /\ q.data # Null THEN {"data"} ELSE {})

\* ------------------------------------------------ pages/stock.tsx (create)

MaxUploads == 2

\* The price field: empty is sent as 0, min={0}.
FormPrices == {0, 7500}

\* An image address: one typed into the form, or the one of a stored upload.
TypedUrl == <<"url", 0>>
UploadUrl(n) == <<"upload", n>>

\* createMut.mutationFn up to its first request.  An empty name throws; a
\* typed URL is used as it is; without one a selected file is uploaded first.
\* The button is loading while the mutation is pending.
SubmitItem(nameOk, price, url, file) ==
    /\ itemReq = None
    /\ seq.item <= MaxItems
    /\ Cardinality(uploads) < MaxUploads
    /\ IF ~nameOk
       THEN /\ resp' = "form_invalid"
            /\ UNCHANGED itemReq
       ELSE /\ itemReq' =
                 IF url = Null /\ file
                 THEN [kind |-> "uploadItemImage", price |-> price, image_url |-> Null,
                       uploaded |-> FALSE, imageUrl |-> url, file |-> file]
                 ELSE [kind |-> "createItem", price |-> price, image_url |-> url,
                       uploaded |-> FALSE, imageUrl |-> url, file |-> file]
            /\ UNCHANGED resp
    /\ UNCHANGED <<clients, items, purchases, seq, pending, today, call>>
    /\ UNCHANGED <<selected, ia, uploads, tenant, owner, auth, localAuth, isReady, route, nav, events, net, lists, cache>>

\* uploadItemImage: POST /items/upload-image/ is answered.  On success the
\* storage holds the file and the mutation goes on to createItem with its
\* address; a failure rejects the mutation (onError).
UploadDone(ok) ==
    /\ itemReq # None
    /\ itemReq.kind = "uploadItemImage"
    /\ IF ok
       THEN LET n == Cardinality(uploads) + 1 IN
            /\ uploads' = uploads \cup {n}
            /\ itemReq' = [itemReq EXCEPT !.kind = "createItem",
                                           !.image_url = Some(UploadUrl(n)),
                                           !.uploaded = TRUE]
            /\ UNCHANGED resp
       ELSE /\ resp' = "upload_failed"
            /\ itemReq' = None
            /\ UNCHANGED uploads
    /\ UNCHANGED <<clients, items, purchases, seq, pending, today, call>>
    /\ UNCHANGED <<selected, ia, tenant, owner, auth, localAuth, isReady, route, nav, events, net, lists, cache>>

\* createItem: POST /items/ is answered.  On success the row is stored and
\* onSuccess invalidates ['items']; a failure (a status outside 2xx, a
\* timeout) rejects the mutation (onError).
DeliverItem(ok) ==
    /\ itemReq # None
    /\ itemReq.kind = "createItem"
    /\ IF ok
       THEN /\ items' = items \cup {[id |-> seq.item, price |-> itemReq.price,
                                     image_url |-> itemReq.image_url]}
            /\ seq' = [seq EXCEPT !.item = @ + 1]
            /\ resp' = "ok"
            /\ cache' = Invalidate(<<"items">>)
       ELSE /\ resp' = "create_failed"
            /\ UNCHANGED <<items, seq, cache>>
    /\ itemReq' = None
    /\ UNCHANGED <<clients, purchases, pending, today, call>>
    /\ UNCHANGED <<selected, ia, uploads, tenant, owner, auth, localAuth, isReady, route, nav, events, net, lists>>

\* ---------------------------------------------------- the pages' list queries

\* A page is opened: its queries are mounted, and those without data or
\* with stale data are fetched.
OpenPage(r) ==
    /\ r # route
    /\ route' = r
    /\ cache' = [k \in ListKeys |->
                    IF k \in Observed(r) /\ (cache[k].data = Null \/ cache[k].stale)
                    THEN [cache[k] EXCEPT !.fetching = TRUE]
                    ELSE cache[k]]
    /\ UNCHANGED <<clients, items, purchases, seq, pending, resp, today, call>>
    /\ UNCHANGED <<selected, ia, uploads, itemReq, tenant, owner, auth, localAuth, isReady, nav, events, net, lists>>

\* What GET /clients/ , /items/ , /purchases/ return for a list's key.
ServerList(k) ==
    IF k[1] = "clients" THEN {r.id : r \in clients}
    ELSE IF k[1] = "items" THEN {r.id : r \in items}
    ELSE {r.id : r \in purchases}

\* The request of a list query is answered: the rows become its data and it
\* is fresh; on an error the data it had stays.
ListRespond(k, ok) ==
    /\ cache[k].fetching
    /\ cache' = [cache EXCEPT ![k] =
                    IF ok
                    THEN [data |-> Some(ServerList(k)), stale |-> FALSE, fetching |-> FALSE]
                    ELSE [@ EXCEPT !.fetching = FALSE]]
    /\ UNCHANGED <<clients, items, purchases, seq, pending, resp, today, call, ui>>

\* staleTime passes for a query.
Expire(k) ==
    /\ cache[k].data # Null
    /\ ~cache[k].stale
    /\ cache' = [cache EXCEPT ![k].stale = TRUE]
    /\ UNCHANGED <<clients, items, purchases, seq, pending, resp, today, call, ui>>

\* ClientsPage.handleCreate with useClients' createMutation: a blank name is
\* refused by the form; on success the row is stored and onSuccess
\* invalidates KEY(debounced); a failure shows the toast.
HandleCreate(n, ok) ==
    /\ route = "/clients"
    /\ seq.client <= MaxClients
    /\ IF n = ""
       THEN /\ resp' = "form_invalid"
            /\ UNCHANGED <<clients, seq, owner, cache>>
       ELSE IF ok
       THEN /\ clients' = clients \cup {[id |-> seq.client, name |-> n]}
            /\ seq' = [seq EXCEPT !.client = @ + 1]
            /\ owner' = owner \cup {<<seq.client, tenant>>}
            /\ resp' = "ok"
            /\ cache' = Invalidate(KEY(debounced))
       ELSE /\ resp' = "create_failed"
            /\ UNCHANGED <<clients, seq, owner, cache>>
    /\ UNCHANGED <<items, purchases, pending, today, call>>
    /\ UNCHANGED <<selected, ia, uploads, itemReq, tenant, auth, localAuth, isReady, route, nav, events, net, lists>>

\* ------------------------------------------------- useDebounce (useClients)

Terms == {"", "a", "an", "ana"}
Delay == 350
Elapses == {50, 300}

\* An input change that leaves the pending timer running.
TypeKeepsTimer(v) ==
    /\ v # search
    /\ search' = v
    /\ timer' = IF timer = Null THEN Some([value |-> v, elapsed |-> 0]) ELSE timer
    /\ UNCHANGED debounced
    /\ UNCHANGED <<clients, items, purchases, seq, pending, resp, today, call, cache>>
    /\ UNCHANGED <<selected, ia, uploads, itemReq, tenant, owner, auth, localAuth, isReady, route, nav, events, net>>

\* The input changes: the effect's cleanup clears the pending timer and the
\* effect sets a new one for the new value.
Type(v) ==
    /\ v # search
    /\ search' = v
    /\ timer' = Some([value |-> v, elapsed |-> 0])
    /\ UNCHANGED debounced
    /\ UNCHANGED <<clients, items, purchases, seq, pending, resp, today, call, cache>>
    /\ UNCHANGED <<selected, ia, uploads, itemReq, tenant, owner, auth, localAuth, isReady, route, nav, events, net>>

\* Time passes while a timer is pending.
Advance(ms) ==
    /\ timer # Null
    /\ The(timer).elapsed < Delay
    /\ timer' = Some([The(timer) EXCEPT !.elapsed =
                          IF @ + ms < Delay THEN @ + ms ELSE Delay])
    /\ UNCHANGED <<search, debounced>>
    /\ UNCHANGED <<clients, items, purchases, seq, pending, resp, today, call, cache>>
    /\ UNCHANGED <<selected, ia, uploads, itemReq, tenant, owner, auth, localAuth, isReady, route, nav, events, net>>

\* The timer's callback runs, the delay having passed: setDebounced(value).
DebounceFire ==
    /\ timer # Null
    /\ The(timer).elapsed >= Delay
    /\ debounced' = The(timer).value
    /\ timer' = Null
    /\ UNCHANGED search
    /\ UNCHANGED <<clients, items, purchases, seq, pending, resp, today, call, cache>>
    /\ UNCHANGED <<selected, ia, uploads, itemReq, tenant, owner, auth, localAuth, isReady, route, nav, events, net>>

\* --------------------------------------------------- tenants and sessions

Tenants == {"t1", "t2"}

\* Another tenant's session takes over issuing the requests.
SwitchTenant(t) ==
    /\ t # tenant
    /\ tenant' = t
    /\ UNCHANGED <<clients, items, purchases, seq, pending, resp, today, call>>
    /\ UNCHANGED <<selected, ia, uploads, itemReq, owner, auth, localAuth, isReady, route, nav, events, net, lists, cache>>

\* getClients: GET /clients/ returns the rows of public.clients; the table
\* has no owner column and row level security is disabled.
getClients == clients

\* ------------------------------- contexts/AuthContext.tsx, pages/_app.tsx

Users == {"u1", "u2"}

\* An access token issued to a user, and a token made of blanks only.
\* The empty string, like a missing field, is Null.
Token(u) == <<"token", u>>
BlankToken == <<"blank", "">>

\* The AuthState signIn builds from a login response: access_token,
\* token_type and user; it has no field `token`.
AuthState(u) ==
    [access_token |-> Some(<<"token", u>>), token_type |-> "bearer", user |-> u,
     token |-> Null]

\* JSON.stringify of an object, and a text that is not JSON.
JsonStringify(obj) == [json |-> TRUE, obj |-> obj]
EmptyObject == [access_token |-> Null, token_type |-> "undefined", user |-> "none", token |-> Null]
NotJson == [json |-> FALSE, obj |-> EmptyObject]

\* JSON.parse: the object, or Null where it throws.
JsonParse(raw) == IF raw.json THEN Some(raw.obj) ELSE Null

\* What other code may leave under the key 'auth': a session, the older
\* format { token, user }, a blank token, a session without token_type,
\* an empty object, a text that does not parse; or nothing.
StoredValues ==
    {Null, Some(NotJson), Some(JsonStringify(EmptyObject)),
     Some(JsonStringify([EmptyObject EXCEPT !.token = Some(Token("u1")), !.user = "u1"])),
     Some(JsonStringify([AuthState("u1") EXCEPT !.access_token = Some(BlankToken)])),
     Some(JsonStringify([AuthState("u1") EXCEPT !.token_type = "undefined"]))}
        \cup {Some(JsonStringify(AuthState(u))) : u \in Users}

Dashboard == "/"
LoginRoute == "/login"
protectedRoutes == {"/", "/clients", "/purchases", "/stock"}

\* const hasToken = Boolean(auth?.token)
hasToken == auth # Null /\ The(auth).token # Null

\* const isAuthenticated = !!auth?.access_token
isAuthenticated == auth # Null /\ The(auth).access_token # Null

\* ------------------------------------------------------ services/fetcher.ts

MaxInflight == 2
MaxResponses == 3
Statuses == {200, 401, 403}

\* readAuthFromStorage: the stored access_token, or the token of the older
\* format; null when nothing is stored, it does not parse or has neither.
readAuthFromStorage ==
    IF localAuth = Null THEN Null
    ELSE LET parsed == JsonParse(The(localAuth)) IN
         IF parsed = Null THEN Null
         ELSE LET o == The(parsed)
                  access_token == IF o.access_token # Null THEN o.access_token ELSE o.token
              IN  IF access_token # Null
                  THEN Some([access_token |-> access_token,
                             token_type |-> IF o.token_type # "undefined" THEN o.token_type
                                            ELSE IF o.access_token # Null THEN "bearer"
                                            ELSE "undefined",
                             user |-> o.user])
                  ELSE Null

\* The request interceptor: the token of the Authorization header it sets,
\* Null when the request leaves without one.
AuthorizationHeader ==
    IF readAuthFromStorage # Null THEN The(readAuthFromStorage).access_token ELSE Null

\* A response interceptor without the alreadyHandled401 flag.
On401EveryTime ==
    /\ alreadyHandled401' = TRUE
    /\ localAuth' = Null
    /\ redirects' = redirects + 1

\* The response interceptor on a 401: the first one of the page load removes
\* 'auth' and assigns window.location.href = "/login".
On401 ==
    IF ~alreadyHandled401
    THEN /\ alreadyHandled401' = TRUE
         /\ localAuth' = Null
         /\ redirects' = redirects + 1
    ELSE UNCHANGED <<alreadyHandled401, localAuth, redirects>>

\* A request of the page leaves through the request interceptor.
SendRequest ==
    /\ isReady
    /\ Len(inflight) < MaxInflight
    /\ Len(delivered) + Len(inflight) < MaxResponses
    /\ inflight' = Append(inflight, [authorization |-> AuthorizationHeader])
    /\ UNCHANGED <<clients, items, purchases, seq, pending, resp, today, call>>
    /\ UNCHANGED <<selected, ia, uploads, itemReq, tenant, owner, lists, cache>>
    /\ UNCHANGED <<auth, localAuth, isReady, route, nav, events>>
    /\ UNCHANGED <<alreadyHandled401, redirects, delivered>>

\* The response to the k-th request in flight passes the response
\* interceptor: an error status is rejected to the caller.
Respond(k, status) ==
    /\ k \in 1 .. Len(inflight)
    /\ inflight' = SubSeq(inflight, 1, k - 1) \o SubSeq(inflight, k + 1, Len(inflight))
    /\ delivered' = Append(delivered, [status |-> status, rejected |-> status # 200])
    /\ IF status = 401 THEN On401 ELSE UNCHANGED <<alreadyHandled401, localAuth, redirects>>
    /\ UNCHANGED <<clients, items, purchases, seq, pending, resp, today, call>>
    /\ UNCHANGED <<selected, ia, uploads, itemReq, tenant, owner, lists, cache>>
    /\ UNCHANGED <<auth, isReady, route, nav, events>>

\* ----------------------------------------------------- the session's steps

\* The page is loaded at route r: the React state and the module state of
\* the fetcher start over, the storage stays.
Reload(r) ==
    /\ auth' = Null
    /\ isReady' = FALSE
    /\ route' = r
    /\ nav' = "idle"
    /\ events' = <<>>
    /\ alreadyHandled401' = FALSE
    /\ inflight' = <<>>
    /\ redirects' = 0
    /\ delivered' = <<>>
    /\ UNCHANGED <<clients, items, purchases, seq, pending, resp, today, call>>
    /\ UNCHANGED <<selected, ia, uploads, itemReq, tenant, owner, localAuth, lists, cache>>

\* window.location.href = "/login" takes effect.
LocationHref ==
    /\ redirects > 0
    /\ Reload(LoginRoute)

\* A hydration that keeps whatever parses.
HydratedAuthAnyObject(stored) ==
    IF stored = Null THEN Null ELSE JsonParse(The(stored))

\* The auth state the hydration effect sets for a stored value: the parsed
\* object when access_token is a non-blank string and token_type a string.
HydratedAuth(stored) ==
    IF stored = Null THEN Null
    ELSE LET parsed == JsonParse(The(stored)) IN
         IF /\ parsed # Null
            /\ The(parsed).access_token # Null
            /\ The(parsed).access_token # Some(BlankToken)
            /\ The(parsed).token_type # "undefined"
         THEN parsed
         ELSE Null

\* The hydration effect: the stored value becomes the auth state or is
\* removed; then isReady.
Hydrate ==
    /\ ~isReady
    /\ auth' = HydratedAuth(localAuth)
    /\ localAuth' = IF HydratedAuth(localAuth) = Null THEN Null ELSE localAuth
    /\ isReady' = TRUE
    /\ UNCHANGED <<clients, items, purchases, seq, pending, resp, today, call>>
    /\ UNCHANGED <<selected, ia, uploads, itemReq, tenant, owner, route, nav, events, net, lists, cache>>

LoginOutcomes == {"ok", "no_token", "401"}

\* signIn from the login page, with the response to POST /auth/login/ and
\* whether login is the variant of services/auth.ts that persists.  A login
\* with a token sets the auth state, stores it and starts router.push('/');
\* one without throws, after the persisting variant has removed 'auth'.
SignIn(u, outcome, persisting) ==
    /\ isReady
    /\ route = LoginRoute
    /\ nav = "idle"
    /\ Len(delivered) < MaxResponses
    /\ delivered' = Append(delivered, [status |-> IF outcome = "401" THEN 401 ELSE 200,
                                       rejected |-> outcome = "401"])
    /\ IF outcome = "ok"
       THEN /\ auth' = Some(AuthState(u))
            /\ localAuth' = Some(JsonStringify(AuthState(u)))
            /\ nav' = "pushing"
            /\ resp' = "ok"
            /\ UNCHANGED <<alreadyHandled401, redirects>>
       ELSE /\ resp' = "login_failed"
            /\ UNCHANGED <<auth, nav>>
            /\ IF outcome = "401" /\ ~alreadyHandled401
               THEN alreadyHandled401' = TRUE /\ redirects' = redirects + 1
               ELSE UNCHANGED <<alreadyHandled401, redirects>>
            /\ localAuth' = IF persisting \/ (outcome = "401" /\ ~alreadyHandled401)
                            THEN Null ELSE localAuth
    /\ UNCHANGED <<clients, items, purchases, seq, pending, today, call>>
    /\ UNCHANGED <<selected, ia, uploads, itemReq, tenant, owner, isReady, route, events, inflight, lists, cache>>

\* router.push('/') completes.
PushDone ==
    /\ nav = "pushing"
    /\ route' = Dashboard
    /\ nav' = "idle"
    /\ UNCHANGED <<clients, items, purchases, seq, pending, resp, today, call>>
    /\ UNCHANGED <<selected, ia, uploads, itemReq, tenant, owner, auth, localAuth, isReady, events, net, lists, cache>>

\* A guard effect that does not wait for the auth state to be ready.
GuardRedirectBeforeReady ==
    IF ~hasToken /\ route \in protectedRoutes THEN Some(LoginRoute)
    ELSE IF hasToken /\ route = LoginRoute THEN Some(Dashboard)
    ELSE Null

\* The body of the route-guard effect of AppShell: the route it replaces
\* the current one with, Null when it returns without a redirect.
GuardRedirect ==
    IF ~isReady THEN Null
    ELSE IF ~hasToken /\ route \in protectedRoutes THEN Some(LoginRoute)
    ELSE IF hasToken /\ route = LoginRoute THEN Some(Dashboard)
    ELSE Null

\* What AppShell renders: null until the auth state is ready, then the page
\* of the route.
AppShellRenders == IF ~isReady THEN Null ELSE Some(route)

\* The route-guard effect of AppShell, when it redirects.
GuardEffect ==
    /\ GuardRedirect # Null
    /\ route' = The(GuardRedirect)
    /\ UNCHANGED <<clients, items, purchases, seq, pending, resp, today, call>>
    /\ UNCHANGED <<selected, ia, uploads, itemReq, tenant, owner, auth, localAuth, isReady, nav, events, net, lists, cache>>

\* A link of the sidebar is followed.
Navigate(r) ==
    /\ isReady
    /\ route \in protectedRoutes
    /\ r \in protectedRoutes \ {route}
    /\ route' = r
    /\ UNCHANGED <<clients, items, purchases, seq, pending, resp, today, call>>
    /\ UNCHANGED <<selected, ia, uploads, itemReq, tenant, owner, auth, localAuth, isReady, nav, events, net, lists, cache>>

MaxEvents == 1

\* Another tab sets or removes 'auth': the stored value changes and this
\* tab, once its listener is registered, is sent a storage event with the
\* new value.
OtherTabWrites(v) ==
    /\ v # localAuth
    /\ Len(events) < MaxEvents
    /\ localAuth' = v
    /\ events' = IF isReady THEN Append(events, [key |-> "auth", newValue |-> v]) ELSE events
    /\ UNCHANGED <<clients, items, purchases, seq, pending, resp, today, call>>
    /\ UNCHANGED <<selected, ia, uploads, itemReq, tenant, owner, auth, isReady, route, nav, net, lists, cache>>

\* Another tab writes some other key of the storage.
OtherKeyWrites ==
    /\ isReady
    /\ Len(events) < MaxEvents
    /\ events' = Append(events, [key |-> "other", newValue |-> Some(NotJson)])
    /\ UNCHANGED <<clients, items, purchases, seq, pending, resp, today, call>>
    /\ UNCHANGED <<selected, ia, uploads, itemReq, tenant, owner, auth, localAuth, isReady, route, nav, net, lists, cache>>

\* A handler that looks at the new value of any key.
SyncedAuthAnyKey(e) ==
    IF e.newValue # Null /\ JsonParse(The(e.newValue)) # Null
       /\ The(JsonParse(The(e.newValue))).access_token # Null
    THEN JsonParse(The(e.newValue))
    ELSE Null

\* The auth state after onStorage has handled event e: for the key 'auth'
\* the parsed new value when it has an access_token, null otherwise.
SyncedAuth(e) ==
    IF e.key = "auth"
    THEN IF e.newValue # Null /\ JsonParse(The(e.newValue)) # Null
            /\ The(JsonParse(The(e.newValue))).access_token # Null
         THEN JsonParse(The(e.newValue))
         ELSE Null
    ELSE auth

\* onStorage handles the oldest storage event.
onStorage ==
    /\ isReady
    /\ events # <<>>
    /\ auth' = SyncedAuth(Head(events))
    /\ events' = Tail(events)
    /\ UNCHANGED <<clients, items, purchases, seq, pending, resp, today, call>>
    /\ UNCHANGED <<selected, ia, uploads, itemReq, tenant, owner, localAuth, isReady, route, nav, net, lists, cache>>

\* signOut
SignOut ==
    /\ isReady
    /\ auth # Null
    /\ auth' = Null
    /\ localAuth' = Null
    /\ route' = LoginRoute
    /\ UNCHANGED <<clients, items, purchases, seq, pending, resp, today, call>>
    /\ UNCHANGED <<selected, ia, uploads, itemReq, tenant, owner, isReady, nav, events, net, lists, cache>>

\* ------------------------------------------------------------------ claims

IdsOf(rows) == {r.id : r \in rows}
FormClients == ClientIds \cup {NoSel}
FormItems == ItemIds \cup {NoSel}
StoreUnchanged == clients' = clients /\ items' = items /\ purchases' = purchases

\* C1 -- a create-purchase with quantity <= 0 is rejected whatever the client
\* and item are: the caller gets an error, no request or row is added and
\* clients, items and purchases stay as they were.
C1_NonPositiveQuantityRejected ==
    [][\A c \in FormClients, i \in FormItems, q \in Quantities :
          (q <= 0 /\ (CreatePurchase(c, i, q) \/ SubmitPurchase(c, i, q)))
             => /\ resp' \in {"quantity_check", "form_invalid"}
                /\ StoreUnchanged
                /\ pending' = pending]_vars

C1_Witness == resp = "quantity_check" /\ clients # {} /\ items # {}

\* C2 -- a create-purchase naming a client or an item that does not exist is
\* rejected and changes nothing; every row that is inserted references a
\* client and an item that exist when it is inserted.
C2_MissingReferenceRejected ==
    [][/\ \A c \in ClientIds, i \in ItemIds, q \in Quantities :
            (/\ c \notin IdsOf(clients) \/ i \notin IdsOf(items)
             /\ \/ CreatePurchase(c, i, q)
                \/ /\ pending # None
                   /\ pending.client_id = c /\ pending.item_id = i /\ pending.quantity = q
                   /\ DeliverPurchase)
               => resp' \in {"quantity_check", "client_fkey", "item_fkey"} /\ StoreUnchanged
       /\ \A r \in purchases' \ purchases :
            r.client_id \in IdsOf(clients) /\ r.item_id \in IdsOf(items)]_vars

C2_Witness == resp = "item_fkey" /\ clients # {} /\ purchases = {}

\* C3 -- deleting client c removes exactly the purchases of c: right after the
\* delete none is left, the other clients' purchases are the same rows, and
\* from then on a purchase query for a deleted client is empty.
C3_DeleteClientCascades ==
    /\ [][\A c \in ClientIds :
            (c \in IdsOf(clients) /\ DeleteClient(c))
               => /\ resp' = "ok"
                  /\ c \notin IdsOf(clients')
                  /\ {p \in purchases' : p.client_id = c} = {}
                  /\ {p \in purchases' : p.client_id # c}
                        = {p \in purchases : p.client_id # c}]_vars
    /\ [](\A c \in 1 .. seq.client - 1 :
            c \notin IdsOf(clients) => {p \in listPurchases : p.client_id = c} = {})

\* A client was deleted, its purchase went with it and another client's stayed.
C3_Witness ==
    /\ \E c \in 1 .. seq.client - 1 : c \notin IdsOf(clients)
    /\ purchases # {}
    /\ Cardinality(purchases) < seq.purchase - 1
    /\ resp = "ok"

\* C4 -- deleting an item that a purchase references is rejected, the item and
\* the purchases stay; an item no purchase references is deleted.
C4_DeleteItemRestricted ==
    [][\A i \in ItemIds :
          (i \in IdsOf(items) /\ DeleteItem(i))
             => IF \E p \in purchases : p.item_id = i
                THEN resp' = "item_restrict" /\ listItems' = listItems /\ StoreUnchanged
                ELSE resp' = "ok" /\ i \notin IdsOf(items') /\ purchases' = purchases]_vars

C4_Witness ==
    /\ resp = "item_restrict"
    /\ \E p \in purchases : p.item_id \in IdsOf(listItems)

\* C5 -- every purchase has quantity > 0 and a total that is non-negative and
\* equal to quantity x the unit price of the item it references.
C5_PurchaseTotals ==
    \A p \in purchases :
        /\ p.quantity > 0
        /\ p.total >= 0
        /\ \E it \in items : it.id = p.item_id /\ p.total = p.quantity * it.price

\* What holds of the totals: positive quantity, total = quantity x unit price.
PurchaseTotalsConsistent ==
    \A p \in purchases :
        /\ p.quantity > 0
        /\ \E it \in items : it.id = p.item_id /\ p.total = p.quantity * it.price

\* C6 -- under every interleaving of the writes, every stored purchase
\* references a client and an item that exist in the same state.
C6_NoDanglingPurchase ==
    \A p \in purchases : p.client_id \in IdsOf(clients) /\ p.item_id \in IdsOf(items)

\* The page's request is in flight and names a client deleted since it left.
C6_Witness ==
    /\ pending # None
    /\ pending.client_id \notin IdsOf(clients)
    /\ purchases # {}


\* ---------------------------------------------------- claims on analytics

\* The rows a well-formed call of the given kind returns in this state.
Returned(kind) == call.kind = kind /\ call.wellFormed

InTopWindow(p) == p.purchased_at > today - TopWindowDays /\ p.purchased_at <= today
BuyersInWindow == {c \in clients : \E p \in purchases : p.client_id = c.id /\ InTopWindow(p)}
SoldInWindow == {it \in items : \E p \in purchases : p.item_id = it.id /\ InTopWindow(p)}
PurchasesOfIn(c) == {p \in purchases : p.client_id = c /\ InTopWindow(p)}

RECURSIVE SumQuantityTimesPrice(_)
SumQuantityTimesPrice(ps) ==
    IF ps = {} THEN 0
    ELSE LET p == CHOOSE x \in ps : TRUE
             it == CHOOSE x \in items : x.id = p.item_id
         IN p.quantity * it.price + SumQuantityTimesPrice(ps \ {p})

\* C7 -- getSalesTrend(days = N) returns exactly N points, one per calendar
\* day of the trailing window, oldest first, each with revenue >= 0; the
\* helper getSalesTrend7d returns the overview's trend7d as it is.
C7_SalesTrendPoints ==
    /\ (Returned("salesTrend") \/ Returned("trend7d")) =>
          LET r == HelperResult(call) IN
          /\ Len(r) = call.arg
          /\ \A k \in 1 .. Len(r) : r[k].day = today - call.arg + k /\ r[k].revenue >= 0
    /\ Returned("trend7d") => HelperResult(call) = OverviewResponse(TRUE).trend7d.val

\* What holds of the trend: N points, one per day, oldest first, each the sum
\* of that day's totals.
SalesTrendShape ==
    (Returned("salesTrend") \/ Returned("trend7d")) =>
        LET r == HelperResult(call) IN
        /\ Len(r) = call.arg
        /\ \A k \in 1 .. Len(r) :
              /\ r[k].day = today - call.arg + k
              /\ r[k].revenue =
                    SumQuantityTimesPrice({p \in purchases : p.purchased_at = r[k].day})

\* C8 -- the top lists are sorted descending by their metric, hold each
\* qualifying entity at most once, and have min(limit, available) entries:
\* none for limit 0, all of them for a limit above what is available.
C8_TopListsSortedAndLimited ==
    /\ Returned("topCustomers") =>
          LET r == HelperResult(call) IN
          /\ Len(r) = Min(call.arg, Cardinality(BuyersInWindow))
          /\ \A k \in 1 .. Len(r) - 1 : r[k].total_spent >= r[k + 1].total_spent
          /\ \A j, k \in 1 .. Len(r) : j # k => r[j].client_id # r[k].client_id
          /\ \A k \in 1 .. Len(r) : r[k].client_id \in IdsOf(BuyersInWindow)
          /\ \A k \in 1 .. Len(r), c \in BuyersInWindow :
                (\A j \in 1 .. Len(r) : r[j].client_id # c.id)
                    => SumQuantityTimesPrice(PurchasesOfIn(c.id)) <= r[k].total_spent
    /\ Returned("topProducts") =>
          LET r == HelperResult(call) IN
          /\ Len(r) = Min(call.arg, Cardinality(SoldInWindow))
          /\ \A k \in 1 .. Len(r) - 1 : r[k].units_sold >= r[k + 1].units_sold
          /\ \A j, k \in 1 .. Len(r) : j # k => r[j].item_id # r[k].item_id
          /\ \A k \in 1 .. Len(r) : r[k].item_id \in IdsOf(SoldInWindow)

\* Two clients bought in the window and a limit of 5 returns both.
C8_Witness ==
    /\ Returned("topCustomers")
    /\ call.arg = DefaultLimit
    /\ Cardinality(BuyersInWindow) = 2
    /\ Len(HelperResult(call)) = 2
    /\ HelperResult(call)[1].total_spent > HelperResult(call)[2].total_spent

\* C9 -- each returned client's total_spent is the sum of the totals of its
\* purchases in the window and orders_count their number; with the single
\* client "Ana" whose purchases in the window total 150.00,
\* getTopCustomers(90, 5) is exactly the one entry for Ana with 150.00.
C9_TotalSpentIsWindowSum ==
    Returned("topCustomers") =>
        LET r == HelperResult(call) IN
        /\ \A k \in 1 .. Len(r) :
              /\ r[k].total_spent = SumQuantityTimesPrice(PurchasesOfIn(r[k].client_id))
              /\ r[k].orders_count = Cardinality(PurchasesOfIn(r[k].client_id))
              /\ \E c \in clients : c.id = r[k].client_id /\ c.name = r[k].client_name
        /\ \A a \in clients :
              (/\ clients = {a} /\ a.name = "Ana" /\ call.arg = DefaultLimit
               /\ SumQuantityTimesPrice(PurchasesOfIn(a.id)) = 15000)
                 => r = <<[client_id |-> a.id, client_name |-> "Ana",
                           orders_count |-> Cardinality(PurchasesOfIn(a.id)),
                           total_spent |-> 15000]>>

\* Ana is the only client, her purchases in the last 90 days total 150.00.
C9_Witness ==
    /\ Returned("topCustomers")
    /\ call.arg = DefaultLimit
    /\ \E a \in clients : clients = {a} /\ a.name = "Ana"
    /\ Len(HelperResult(call)) = 1
    /\ HelperResult(call)[1].total_spent = 15000
    /\ HelperResult(call)[1].orders_count = 2

\* C10 -- clients with the same summed total come in the order of their
\* identity, so the sequence returned for a store state is fixed.
C10_TiesByClientIdentity ==
    Returned("topCustomers") =>
        LET r == HelperResult(call) IN
        \A k \in 1 .. Len(r) - 1 :
            r[k].total_spent = r[k + 1].total_spent => r[k].client_id < r[k + 1].client_id

\* Two clients with the same total, both returned.
C10_Witness ==
    /\ Returned("topCustomers")
    /\ Len(HelperResult(call)) = 2
    /\ HelperResult(call)[1].total_spent = HelperResult(call)[2].total_spent

\* ------------------------------------------ claims on churn and the overview

MaxRecency == 100

HasPurchase(c) == \E p \in purchases : p.client_id = c

\* Days since client c last bought (c has a purchase).
DaysSinceLast(c) ==
    LET last == CHOOSE p \in purchases :
                    /\ p.client_id = c
                    /\ \A q \in purchases : q.client_id = c => q.purchased_at <= p.purchased_at
    IN today - last.purchased_at

Severity(colour) ==
    CASE colour = "green" -> 0 [] colour = "yellow" -> 1 [] colour = "red" -> 2
      [] OTHER -> -1

\* C11 -- the churn score lies in 0..100 and never falls as the days since the
\* last purchase grow: of two clients the one absent longer has the score that
\* is at least as high, and its badge is at least as severe; a further day of
\* absence never lowers the score.
C11_ChurnScoreMonotone ==
    /\ Returned("churnRisk") =>
          LET r == HelperResult(call) IN
          /\ \A d \in 0 .. MaxRecency :
                /\ ChurnScore(Some(d)) \in 0 .. 100
                /\ ChurnScore(Some(d)) <= ChurnScore(Some(d + 1))
                /\ Severity(churnBadge(Some(ChurnScore(Some(d)))))
                      <= Severity(churnBadge(Some(ChurnScore(Some(d + 1)))))
          /\ \A k \in 1 .. Len(r) : r[k].churn_score \in 0 .. 100
          /\ \A j, k \in 1 .. Len(r) :
                (/\ HasPurchase(r[j].client_id) /\ HasPurchase(r[k].client_id)
                 /\ DaysSinceLast(r[j].client_id) <= DaysSinceLast(r[k].client_id))
                   => /\ r[j].churn_score <= r[k].churn_score
                      /\ Severity(churnBadge(Some(r[j].churn_score)))
                            <= Severity(churnBadge(Some(r[k].churn_score)))

\* Two clients, one absent longer than the other, with different scores.
C11_Witness ==
    /\ Returned("churnRisk")
    /\ Len(HelperResult(call)) = 2
    /\ \A k \in 1 .. 2 : HasPurchase(HelperResult(call)[k].client_id)
    /\ DaysSinceLast(HelperResult(call)[1].client_id)
          > DaysSinceLast(HelperResult(call)[2].client_id)
    /\ HelperResult(call)[1].churn_score > HelperResult(call)[2].churn_score

\* C13 -- the churn list is ranked descending by score, and the helper
\* getChurnRisk(limit) returns the first min(limit, n) entries of the
\* overview's list in the same order: no client left out scores higher than
\* one that is shown.
C13_ChurnRankedAndLimited ==
    Returned("churnRisk") =>
        LET r == HelperResult(call)
            all == OverviewResponse(TRUE).churnRisk.val
        IN /\ Len(all) = Cardinality(clients)
           /\ \A k \in 1 .. Len(all) - 1 : all[k].churn_score >= all[k + 1].churn_score
           /\ Len(r) = Min(call.arg, Len(all))
           /\ \A k \in 1 .. Len(r) : r[k] = all[k]
           /\ \A k \in 1 .. Len(r), c \in clients :
                 (\A j \in 1 .. Len(r) : r[j].client_id # c.id)
                    => \E j \in 1 .. Len(all) :
                          all[j].client_id = c.id /\ all[j].churn_score <= r[k].churn_score

\* Two clients with different scores and a limit of 1: the riskier is shown.
C13_Witness ==
    /\ Returned("churnRisk")
    /\ call.arg = 1
    /\ Cardinality(clients) = 2
    /\ Len(HelperResult(call)) = 1
    /\ \E c \in clients :
          /\ c.id # HelperResult(call)[1].client_id
          /\ HasPurchase(c.id)
          /\ ChurnScore(Some(DaysSinceLast(c.id))) < HelperResult(call)[1].churn_score

StoreEmpty == clients = {} /\ items = {} /\ purchases = {}

\* C14 -- on a store with no clients, items or purchases every aggregation
\* result is an empty collection, and the four fields of getOverview's result
\* are always arrays, an empty one in place of a missing or non-array field.
C14_EmptyDataEmptyResults ==
    /\ (StoreEmpty /\ call # None) => HelperResult(call) = <<>>
    /\ \A w \in BOOLEAN :
          LET o == getOverview(OverviewResponse(w)) IN
          /\ o.topCustomers.isArray /\ o.topProducts.isArray
          /\ o.trend7d.isArray /\ o.churnRisk.isArray
          /\ ~w => o = [topCustomers |-> JsArray(<<>>), topProducts |-> JsArray(<<>>),
                        trend7d |-> JsArray(<<>>), churnRisk |-> JsArray(<<>>)]

\* C14 as amended: on an empty store the rankings and the churn list are
\* empty and the trend is its N days with revenue 0; no call fails, and the
\* four fields of getOverview's result are always arrays.
C14_EmptyDataNoError ==
    /\ (StoreEmpty /\ call # None) =>
          LET r == HelperResult(call) IN
          IF call.kind \in {"trend7d", "salesTrend"}
          THEN /\ Len(r) = (IF call.wellFormed THEN call.arg ELSE 0)
               /\ \A k \in 1 .. Len(r) : r[k].revenue = 0
          ELSE r = <<>>
    /\ \A w \in BOOLEAN :
          LET o == getOverview(OverviewResponse(w)) IN
          /\ o.topCustomers.isArray /\ o.topProducts.isArray
          /\ o.trend7d.isArray /\ o.churnRisk.isArray
          /\ ~w => o = [topCustomers |-> JsArray(<<>>), topProducts |-> JsArray(<<>>),
                        trend7d |-> JsArray(<<>>), churnRisk |-> JsArray(<<>>)]

\* An empty store, and a response body without the lists.
C14_Witness ==
    /\ StoreEmpty
    /\ call # None
    /\ ~call.wellFormed
    /\ call.kind = "churnRisk"

\* C15 -- the aggregation calls are pure reads: a step that sends one or
\* returns from one leaves clients, items and purchases (and the ids handed
\* out) as they were.
C15_AggregationsArePureReads ==
    [][call' # call => StoreUnchanged /\ seq' = seq]_vars

\* A call is in flight over a store that holds purchases older than the window.
C15_Witness ==
    /\ call # None
    /\ \E p \in purchases : p.purchased_at <= today - TopWindowDays

\* ------------------------------------------------- claims on suggestions

\* The churn row of client c in the list the aggregation returns now.
ChurnRowOf(c) ==
    LET all == OverviewResponse(TRUE).churnRisk.val
    IN all[CHOOSE k \in 1 .. Len(all) : all[k].client_id = c]

C16_SuggestionsNotFound ==
    /\ [][\A c \in ClientIds :
            (IaRespond(c) /\ c \notin IdsOf(clients))
               => /\ SuggestionResponse(c).status = 404
                  /\ ~getClientSuggestions(SuggestionResponse(c)).ok
                  /\ getClientSuggestions(SuggestionResponse(c)).data = Null
                  /\ ia'[c].data = ia[c].data
                  /\ ia'[c].status = (IF ia'[c].fetching THEN ia[c].status ELSE "error")
                  /\ (~ia'[c].fetching /\ selected = Some(c)) => IaModalShows' = {"error"}]_vars
    /\ [](\A c \in ClientIds :
            (selected = Some(c) /\ ia[c].status = "error") => IaModalShows = {"error"})

\* The client was shown its suggestions, was deleted, and the modal opened
\* again on its row now shows the error although the old data is still cached.
C16_Witness ==
    /\ selected # Null
    /\ The(selected) \notin IdsOf(clients)
    /\ ia[The(selected)].status = "error"
    /\ ia[The(selected)].data # Null
    /\ IaModalShows = {"error"}

\* ------------------------------------------------ claims on the writes

\* C17 -- a create that fails shows its error and leaves nothing behind: the
\* store is as it was and nothing the operation put into the external storage
\* remains; a failed create-item leaves neither an item nor an uploaded image.
C17_FailedCreateLeavesNothing ==
    [][/\ (pending # None /\ pending' = None /\ resp' # "ok")
             => StoreUnchanged /\ uploads' = uploads
       /\ (itemReq # None /\ itemReq' = None)
             => \/ resp' = "ok"
                \/ /\ resp' \in {"upload_failed", "create_failed"}
                   /\ StoreUnchanged
                   /\ itemReq.uploaded => The(itemReq.image_url)[2] \notin uploads']_vars

\* What holds of a failed create: the error is shown and no row of the store
\* is added, removed or changed.
FailedCreateLeavesStore ==
    [][/\ (pending # None /\ pending' = None /\ resp' # "ok") => StoreUnchanged
       /\ (itemReq # None /\ itemReq' = None /\ resp' # "ok")
             => resp' \in {"upload_failed", "create_failed"} /\ StoreUnchanged]_vars

\* C18 -- no step changes a field of an existing item or purchase: items are
\* only added and deleted, purchases only added or removed by the cascade of
\* their client's delete, and a client's fields change only by updateClient.
C18_ItemsAndPurchasesImmutable ==
    [][/\ \A a \in items, b \in items' : a.id = b.id => a = b
       /\ \A a \in purchases, b \in purchases' : a.id = b.id => a = b
       /\ \A p \in purchases \ purchases' : p.client_id \notin IdsOf(clients')
       /\ (\E a \in clients, b \in clients' : a.id = b.id /\ a # b)
             => \E c \in ClientIds, n \in NewNames : UpdateClient(c, n)]_vars

\* A client was renamed while it has a purchase of a stored item.
C18_Witness ==
    \E c \in clients :
        /\ c.name \in NewNames
        /\ \E p \in purchases : p.client_id = c.id /\ p.item_id \in IdsOf(items)

\* ------------------------------------------- claims on tenants and login

\* C19 -- what a user is given depends only on the data of the user's tenant:
\* every client returned by the list, and every client of the churn list the
\* dashboard receives, was created by the tenant whose session asks.
C19_TenantIsolation ==
    /\ \A r \in getClients : <<r.id, tenant>> \in owner
    /\ Returned("churnRisk") =>
          \A k \in 1 .. Len(HelperResult(call)) :
              <<HelperResult(call)[k].client_id, tenant>> \in owner

\* C20 -- after a successful login the navigation ends on the dashboard, and
\* while the session lasts the application is not sent back to /login.
C20_LoginStaysOnDashboard ==
    [][/\ (nav = "pushing" /\ nav' = "idle" /\ isReady') => route' = Dashboard
       /\ (isReady /\ isReady' /\ auth # Null /\ auth' = auth /\ route \in protectedRoutes)
             => route' # LoginRoute]_vars

\* What holds of the login: once router.push('/') has run the route is the
\* dashboard.
LoginReachesDashboard ==
    [][(nav = "pushing" /\ nav' = "idle" /\ isReady') => route' = Dashboard]_vars

\* C21 -- before the auth state is ready the guard redirects nowhere and
\* nothing is rendered; once it is ready, a user with no session on a
\* protected route is redirected to /login.
C21_GuardSendsUnauthenticatedToLogin ==
    /\ ~isReady => GuardRedirect = Null /\ AppShellRenders = Null
    /\ (isReady /\ auth = Null /\ route \in protectedRoutes)
          => GuardRedirect = Some(LoginRoute)

C21_Witness == isReady /\ auth = Null /\ route = "/stock" /\ ENABLED GuardEffect

\* C22 -- once the auth state is ready, a user who holds a session (an
\* AuthState with an access_token) and is on /login is redirected to the
\* dashboard route /.
C22_GuardSendsAuthenticatedToDashboard ==
    (isReady /\ auth # Null /\ The(auth).access_token # Null /\ route = LoginRoute)
        => GuardRedirect = Some(Dashboard)

\* C30 -- the created item's image: with an image URL and a selected file in
\* the form the uploaded file takes priority over the URL, with only one of
\* them that one is used, with neither the item has no image.
C30_UploadedFileHasPriority ==
    [][(itemReq # None /\ itemReq' = None /\ resp' = "ok")
          => \A it \in items' \ items :
                IF itemReq.file
                THEN /\ itemReq.uploaded
                     /\ it.image_url = itemReq.image_url
                     /\ it.image_url # itemReq.imageUrl
                ELSE it.image_url = itemReq.imageUrl]_vars

\* What holds of the image: a typed URL is used as it is and the file is
\* uploaded only when no URL was typed.
TypedUrlHasPriority ==
    [][(itemReq # None /\ itemReq' = None /\ resp' = "ok")
          => \A it \in items' \ items :
                IF itemReq.imageUrl # Null
                THEN it.image_url = itemReq.imageUrl /\ ~itemReq.uploaded
                ELSE IF itemReq.file
                     THEN itemReq.uploaded /\ it.image_url = itemReq.image_url
                     ELSE it.image_url = Null]_vars

\* ------------------------------------------ claims on the session's state

\* C23 -- in a page load the first response with status 401 removes 'auth'
\* from localStorage and redirects to /login; a further 401, also one of a
\* request that was already in flight, redirects no more, so there is at
\* most one redirect per page load; and every 401 is rejected to its caller.
C23_First401RedirectsOnce ==
    [][/\ redirects' <= 1
       /\ (Len(delivered') = Len(delivered) + 1 /\ delivered'[Len(delivered')].status = 401)
             => /\ delivered'[Len(delivered')].rejected
                /\ IF alreadyHandled401
                   THEN redirects' = redirects
                   ELSE localAuth' = Null /\ redirects' = 1 /\ alreadyHandled401']_vars

C23_Witness ==
    /\ Len(delivered) = 3
    /\ \A k \in 1 .. 3 : delivered[k].status = 401 /\ delivered[k].rejected
    /\ redirects = 1
    /\ localAuth = Null

\* Every auth step of the tab has completed: hydration, the handling of the
\* storage events, signIn's navigation, the redirect of a 401.
Settled == isReady /\ events = <<>> /\ nav = "idle" /\ redirects = 0

\* C24 -- after each completed auth step the auth context is authenticated if
\* and only if the request interceptor would attach an Authorization header,
\* and the token a request is sent with is the one in the storage.
C24_SessionAgreement ==
    [][/\ Settled' => (isAuthenticated' <=> AuthorizationHeader' # Null)
       /\ Len(inflight') > Len(inflight)
             => inflight'[Len(inflight')].authorization = AuthorizationHeader]_vars

\* What holds of the requests: each leaves with the token the storage holds
\* when it is sent.
RequestsCarryStoredToken ==
    [][Len(inflight') > Len(inflight)
          => inflight'[Len(inflight')].authorization = AuthorizationHeader]_vars

\* The new value of a storage event carries an access_token.
CarriesAccessToken(v) == v # Null /\ The(v).json /\ The(v).obj.access_token # Null

\* C25 -- when another tab changes 'auth', this tab's auth becomes the parsed
\* new value if it carries an access_token and null otherwise; an event for
\* another key leaves auth unchanged; and a sign-out in another tab
\* eventually leaves this tab without a session.
C25_CrossTabSync ==
    /\ [][(isReady /\ isReady' /\ events # <<>> /\ events' = Tail(events))
            => auth' = (IF Head(events).key # "auth" THEN auth
                        ELSE IF CarriesAccessToken(Head(events).newValue)
                             THEN Some(The(Head(events).newValue).obj)
                             ELSE Null)]_vars
    /\ (events # <<>> /\ Head(events) = [key |-> "auth", newValue |-> Null]) ~> (auth = Null)

C25_Witness ==
    /\ isReady
    /\ events = <<[key |-> "auth", newValue |-> Null]>>
    /\ auth # Null
    /\ localAuth = Null

\* A stored value the hydration accepts: it parses, its access_token is a
\* non-blank string and its token_type a string.
ValidStored(v) ==
    /\ v # Null
    /\ The(v).json
    /\ The(v).obj.access_token \notin {Null, Some(BlankToken)}
    /\ The(v).obj.token_type # "undefined"

\* C26 -- whatever the storage holds under 'auth', isReady becomes true with
\* the hydration and not before; auth is set only from a stored value with a
\* non-blank access_token and a token_type, and any other value present is
\* removed from the storage while auth stays null.
C26_HydrationAcceptsOnlyValid ==
    [][/\ (~isReady /\ isReady')
             => /\ auth' = (IF ValidStored(localAuth) THEN Some(The(localAuth).obj) ELSE Null)
                /\ localAuth' = (IF ValidStored(localAuth) THEN localAuth ELSE Null)
       /\ ~isReady' => auth' = Null]_vars

C26_Witness ==
    /\ isReady
    /\ auth = Some(AuthState("u2"))
    /\ localAuth = Some(JsonStringify(AuthState("u2")))
    /\ route = "/stock"
    /\ delivered = <<>>

\* A step of signIn: a response is delivered and no request of the page
\* left the queue.
SignInStep == Len(delivered') = Len(delivered) + 1 /\ inflight' = inflight

\* C27 -- signIn never persists an invalid session: when the login yields no
\* token it throws, neither auth nor localStorage 'auth' is written and no
\* navigation happens; when it writes, the stored and the in-memory
\* access_token are the same non-empty string.
C27_SignInWritesOnlyValid ==
    [][SignInStep =>
          IF resp' = "login_failed"
          THEN /\ auth' = auth
               /\ localAuth' = localAuth
               /\ nav' = nav /\ route' = route /\ redirects' = redirects
          ELSE /\ auth' # Null
               /\ The(auth').access_token \notin {Null, Some(BlankToken)}
               /\ localAuth' = Some(JsonStringify(The(auth')))]_vars

\* ------------------------------------------------------- debounced search

\* A step of the debounced term: it changes only when the timer set at the
\* last change of the input has run the whole delay, it becomes the input's
\* value and no timer is left; a change of the input replaces the pending
\* timer by a new one and leaves the debounced term.
DebouncedStep ==
    /\ debounced' # debounced =>
          /\ timer # Null
          /\ The(timer).elapsed >= Delay
          /\ The(timer).value = search
          /\ search' = search
          /\ debounced' = search
          /\ timer' = Null
    /\ search' # search =>
          /\ timer' = Some([value |-> search', elapsed |-> 0])
          /\ debounced' = debounced

\* C28: the debounced term of the clients query key changes only after the
\* input has stayed unchanged for the whole delay of 350 ms, every earlier
\* change cancels the pending timer, a burst of changes gives one update to
\* the last value, and once typing stops the debounced term becomes the
\* input's value.
C28_DebouncedSearch ==
    /\ [][DebouncedStep]_vars
    /\ \A t \in Terms : <>[](search = t) => <>[](debounced = t)

\* A burst "a", "an", "ana" has been typed and its one update has happened.
C28_Witness == search = "ana" /\ debounced = "ana" /\ timer = Null

\* ------------------------------------------------------ re-fetch after write

\* The list query of a page that shows the rows of a table.
ClientsList == KEY(debounced)
ItemsList == <<"items", "">>
PurchasesList == <<"purchases">>

\* The step leaves query k invalidated: stale, and fetched again where a
\* mounted page observes it.
Invalidated(k) == cache'[k].stale /\ (k \in Observed(route) => cache'[k].fetching)

\* A create that stored nothing: a request was refused or answered and no
\* table grew.
FailedCreate ==
    /\ clients' = clients /\ items' = items /\ purchases' = purchases
    /\ resp' # resp \/ pending' # pending \/ itemReq' # itemReq

ListStep ==
    /\ clients' # clients => Invalidated(ClientsList)
    /\ items' # items => Invalidated(ItemsList)
    /\ purchases' # purchases => Invalidated(PurchasesList)
    /\ FailedCreate => cache' = cache
    /\ \A k \in ListKeys :
          cache[k].stale /\ ~cache'[k].stale => cache'[k].data = Some(ServerList(k))

\* A list that is not stale shows the rows of its table.
FreshListsAreCurrent ==
    \A k \in ListKeys :
        cache[k].data # Null /\ ~cache[k].stale => The(cache[k].data) = ServerList(k)

SignInNeverStoresInvalid ==
    [][SignInStep =>
          IF resp' = "login_failed"
          THEN auth' = auth /\ localAuth' \in {localAuth, Null} /\ nav' = nav /\ route' = route
          ELSE /\ auth' # Null
               /\ The(auth').access_token \notin {Null, Some(BlankToken)}
               /\ localAuth' = Some(JsonStringify(The(auth')))]_vars

Next ==
    \/ \E n \in Names : CreateClient(n)
    \/ \E p \in Prices : CreateItem(p)
    \/ \E c \in ClientIds, i \in ItemIds, q \in Quantities : CreatePurchase(c, i, q)
    \/ \E c \in ClientIds \cup {NoSel}, i \in ItemIds \cup {NoSel}, q \in Quantities :
          SubmitPurchase(c, i, q)
    \/ DeliverPurchase
    \/ \E c \in ClientIds : DeleteClient(c)
    \/ \E c \in ClientIds, n \in NewNames : UpdateClient(c, n)
    \/ \E i \in ItemIds : DeleteItem(i)

Spec == Init /\ [][Next]_vars

\* The store with the clock and the analytics calls.
NextAnalytics ==
    \/ \E n \in Names : CreateClient(n)
    \/ \E p \in Prices : CreateItem(p)
    \/ \E c \in ClientIds, i \in ItemIds, q \in Quantities : CreatePurchase(c, i, q)
    \/ \E c \in ClientIds : DeleteClient(c)
    \/ \E d \in Days : Tick(d)
    \/ \E w \in BOOLEAN : CallHelper("trend7d", TrendDays, w)
    \/ \E l \in Limits : CallHelper("topCustomers", l, TRUE)
    \/ \E l \in Limits : CallHelper("topProducts", l, TRUE)
    \/ \E l \in Limits : CallHelper("churnRisk", l, TRUE)
    \/ \E k \in {"topCustomers", "topProducts", "churnRisk"} :
          CallHelper(k, DefaultLimit, FALSE)
    \/ \E n \in Windows : CallHelper("salesTrend", n, TRUE)
    \/ Return

SpecAnalytics == Init /\ [][NextAnalytics]_vars

\* The clients page with its suggestions modal, over the store.
NextClients ==
    \/ \E n \in {"Ana"} : CreateClient(n)
    \/ \E p \in {7500} : CreateItem(p)
    \/ \E c \in ClientIds, i \in ItemIds : CreatePurchase(c, i, 1)
    \/ \E c \in ClientIds : DeleteClient(c)
    \/ \E c \in ClientIds : OpenIAModal(c)
    \/ \E c \in ClientIds : IaRespond(c)

SpecClients == Init /\ [][NextClients]_vars

\* The stock page and the purchases page writing to the store.
NextStock ==
    \/ \E n \in Names : CreateClient(n)
    \/ \E nameOk, file \in BOOLEAN, p \in FormPrices, url \in {Null, Some(TypedUrl)} :
          SubmitItem(nameOk, p, url, file)
    \/ \E ok \in BOOLEAN : UploadDone(ok)
    \/ \E ok \in BOOLEAN : DeliverItem(ok)
    \/ \E c \in ClientIds \cup {NoSel}, i \in ItemIds \cup {NoSel}, q \in Quantities :
          SubmitPurchase(c, i, q)
    \/ DeliverPurchase
    \/ \E i \in ItemIds : DeleteItem(i)

SpecStock == Init /\ [][NextStock]_vars

\* Two tenants' sessions over the one store.
NextTenants ==
    \/ \E t \in Tenants : SwitchTenant(t)
    \/ \E n \in Names : CreateClient(n)
    \/ \E p \in {7500} : CreateItem(p)
    \/ \E c \in ClientIds, i \in ItemIds : CreatePurchase(c, i, 1)
    \/ \E c \in ClientIds : DeleteClient(c)
    \/ \E l \in {DefaultLimit} : CallHelper("churnRisk", l, TRUE)
    \/ Return

SpecTenants == Init /\ [][NextTenants]_vars

\* The session: page loads, hydration, login, the route guard, navigation.
NextLogin ==
    \/ \E r \in protectedRoutes \cup {LoginRoute} : Reload(r)
    \/ Hydrate
    \/ \E u \in Users, o \in LoginOutcomes, p \in BOOLEAN : SignIn(u, o, p)
    \/ PushDone
    \/ GuardEffect
    \/ \E r \in protectedRoutes : Navigate(r)
    \/ SignOut
    \/ \E v \in StoredValues : OtherTabWrites(v)
    \/ OtherKeyWrites
    \/ onStorage
    \/ SendRequest
    \/ \E k \in 1 .. MaxInflight, st \in Statuses : Respond(k, st)
    \/ LocationHref

SpecLogin == Init /\ [][NextLogin]_vars

\* The tabs sharing the storage: this tab's page loads, hydration and
\* sign-out, the other tabs' writes, and the storage events, which the
\* browser delivers to the registered listener.
NextTabs ==
    \/ \E r \in protectedRoutes \cup {LoginRoute} : Reload(r)
    \/ Hydrate
    \/ SignOut
    \/ \E v \in StoredValues : OtherTabWrites(v)
    \/ OtherKeyWrites
    \/ onStorage

\* The pages and their list queries: the creates of the three pages, the
\* answers to the list requests, the passing of staleTime.
NextLists ==
    \/ \E r \in protectedRoutes : OpenPage(r)
    \/ \E n \in {"Ana", ""}, ok \in BOOLEAN : HandleCreate(n, ok)
    \/ route = "/stock" /\ SubmitItem(TRUE, 7500, Null, FALSE)
    \/ \E ok \in BOOLEAN : DeliverItem(ok)
    \/ route = "/purchases" /\ SubmitPurchase(1, 1, 1)
    \/ DeliverPurchase
    \/ \E k \in ListKeys, ok \in BOOLEAN : ListRespond(k, ok)
    \/ \E k \in ListKeys : Expire(k)

SpecLists == Init /\ [][NextLists]_vars

\* useClients' debounced search: typing, the passing of time, the timer.
\* Time passes and a due timer's callback is run.
NextSearch ==
    \/ \E v \in Terms : Type(v)
    \/ \E ms \in Elapses : Advance(ms)
    \/ DebounceFire

SpecSearch ==
    Init /\ [][NextSearch]_vars /\ WF_vars(\E ms \in Elapses : Advance(ms)) /\ WF_vars(DebounceFire)

SpecTabs == Init /\ [][NextTabs]_vars /\ WF_vars(onStorage)

====
